---- MODULE Spec2Model ----
(***************************************************************************)
(* Model of the whatsapp-scheduler backend: the in-memory message store    *)
(* and HTTP handlers of server/src/server.js, the polling scheduler of     *)
(* server/src/scheduler.js and the Playwright delivery worker of           *)
(* server/src/automation/whatsapp_worker.js; and, in variables of their    *)
(* own, the schedule and cancel handlers of the database-backed server.    *)
(*                                                                         *)
(* Node runs every synchronous stretch of code to completion, so one       *)
(* action is one macrotask: an HTTP handler, one firing of the interval    *)
(* timer, or the continuation of sendMessage after one awaited Playwright  *)
(* call settles (together with the promise reactions it triggers).         *)
(***************************************************************************)
EXTENDS Integers, Sequences, FiniteSets

\* ------------------------------------------------------------- bounds
MaxMessages == 2
MaxTime == 1
MaxUsers == 1
\* deliver calls per message id the worker steps range over
MaxCalls == 2
\* timer handles that direct startScheduler calls may draw
MaxStarts == 2
\* cancel handlers of the database-backed server suspended at the same time
MaxHandlers == 2

\* ------------------------------------------------------------- values
Users == 1..MaxUsers
\* messageIdCounter starts at 1 and only the schedule handler draws from it
MessageIds == 1..MaxMessages
\* new Date(<unparsable string>) is an Invalid Date: every comparison with it is false
InvalidDate == -1
\* instants of the wall clock; the clock starts at 0 and requests name later instants
Times == 1..MaxTime
\* a request field that is absent (or empty), so that !field is true
Missing == -2
\* a scheduledDateTime string that Date cannot parse
Garbage == -3

Scheduled == "Scheduled"
Processing == "Processing"
Sent == "Sent successfully"
Failed == "Failed"
FailedWorkerError == "Failed (Worker Error)"
Canceled == "Canceled"

VARIABLES
    messages,           \* server.js: the mock database, in insertion order
    messageIdCounter,   \* server.js: next id to hand out
    processingQueue,    \* scheduler.js: ids marked as being processed
    deliveries,         \* per message id, the automationService.deliver calls made for it
    now,                \* wall clock read by new Date()
    liveIntervals,      \* handles of the setInterval timers that are still armed
    schedulerInterval,  \* scheduler.js: handle kept by startScheduler (0 is null)
    nextHandle,         \* handle the next setInterval call returns
    listening,          \* server.js: the app.listen callback has run
    scheduledMessage,   \* database-backed server: the rows of prisma.scheduledMessage
    cancelHandlers      \* database-backed server: cancel handlers suspended at an await

vars == <<messages, messageIdCounter, processingQueue, deliveries, now,
          liveIntervals, schedulerInterval, nextHandle, listening,
          scheduledMessage, cancelHandlers>>

\* the state of the in-memory server, its scheduler and its worker
memVars == <<messages, messageIdCounter, processingQueue, deliveries, now,
             liveIntervals, schedulerInterval, nextHandle, listening>>

\* the state of the database-backed server
prismaVars == <<scheduledMessage, cancelHandlers>>

timerVars == <<liveIntervals, schedulerInterval, nextHandle>>

\* ------------------------------------------------------------- helpers
Indices(s) == 1..Len(s)

\* Array.prototype.findIndex, 0 standing for -1
RECURSIVE FindIndexFrom(_, _, _, _)
FindIndexFrom(s, id, userId, i) ==
    IF i > Len(s) THEN 0
    ELSE IF s[i].id = id /\ s[i].userId = userId THEN i
    ELSE FindIndexFrom(s, id, userId, i + 1)

\* a lookup by id alone, forgetting the owner
findIndexAnyOwner(s, id, userId) ==
    IF \E i \in Indices(s) : s[i].id = id
    THEN CHOOSE i \in Indices(s) : s[i].id = id
    ELSE 0

findIndex(s, id, userId) == FindIndexFrom(s, id, userId, 1)

\* msg.scheduledDateTime <= now
IsDue(msg) == msg.scheduledDateTime # InvalidDate /\ msg.scheduledDateTime <= now

\* the filter without its status test: only the in-flight set guards a message
messagesToDeliverQueueOnly ==
    { i \in Indices(messages) :
        /\ IsDue(messages[i])
        /\ messages[i].id \notin processingQueue }

\* the filter without its time test: every Scheduled message is taken at once
messagesToDeliverNotDue ==
    { i \in Indices(messages) :
        /\ messages[i].status = Scheduled
        /\ messages[i].id \notin processingQueue }

\* the filter taking a message that is being processed whenever its marker is gone
messagesToDeliverProcessingToo ==
    { i \in Indices(messages) :
        /\ messages[i].status \in {Scheduled, Processing}
        /\ IsDue(messages[i])
        /\ messages[i].id \notin processingQueue }

\* the filter comparing with < : a message scheduled for this very instant waits
messagesToDeliverStrictlyPast ==
    { i \in Indices(messages) :
        /\ messages[i].status = Scheduled
        /\ messages[i].scheduledDateTime # InvalidDate
        /\ messages[i].scheduledDateTime < now
        /\ messages[i].id \notin processingQueue }

\* the filter excluding only the messages that are being processed
messagesToDeliverNotProcessing ==
    { i \in Indices(messages) :
        /\ messages[i].status # Processing
        /\ IsDue(messages[i])
        /\ messages[i].id \notin processingQueue }

\* the filter of runScheduler, as the indices it keeps
messagesToDeliver ==
    { i \in Indices(messages) :
        /\ messages[i].status = Scheduled
        /\ IsDue(messages[i])
        /\ messages[i].id \notin processingQueue }

\* the ids of the store
Ids == { messages[i].id : i \in Indices(messages) }

\* the message object with a given id (ids are unique: messageIdCounter++)
IndexOf(id) == CHOOSE i \in Indices(messages) : messages[i].id = id

StatusOf(id) == messages[IndexOf(id)].status

\* let messageIdCounter = 1
messageIdCounterStart == 1

\* ------------------------------------------------------------- Init
Init ==
    /\ messages = << >>
    /\ messageIdCounter = 1
    /\ processingQueue = {}
    /\ deliveries = [ id \in MessageIds |-> << >> ]
    /\ now = 0
    /\ liveIntervals = {}
    /\ schedulerInterval = 0
    /\ nextHandle = 1
    /\ listening = FALSE
    /\ scheduledMessage = << >>
    /\ cancelHandlers = << >>

\* ------------------------------------------------------------- scheduler.js
\* setInterval(() => runScheduler(messagesReference), 10000)
startScheduler ==
    /\ liveIntervals' = liveIntervals \cup {nextHandle}
    /\ schedulerInterval' = nextHandle
    /\ nextHandle' = nextHandle + 1

\* if (schedulerInterval) clearInterval(schedulerInterval): the variable keeps
\* the handle, and clearing a handle that is no longer armed does nothing
stopScheduler ==
    /\ liveIntervals' = IF schedulerInterval # 0
                         THEN liveIntervals \ {schedulerInterval}
                         ELSE liveIntervals
    /\ UNCHANGED <<schedulerInterval, nextHandle>>

\* the state sendMessage is in when deliver(message) returns its promise:
\* suspended in initializeSession, nothing launched yet
NewDelivery ==
    [ pc |-> "launch", status |-> Failed, session |-> FALSE, browser |-> FALSE,
      page |-> "none", outcome |-> "pending" ]

\* a loop that leaves after the first selected message was handed to the worker
DispatchFirstOnly(sel) ==
    [ id \in MessageIds |->
        IF \E i \in sel : messages[i].id = id /\ \A j \in sel : i <= j
        THEN Append(deliveries[id], NewDelivery)
        ELSE deliveries[id] ]

\* messagesToDeliver.forEach(...): one deliver call more for each selected message
Dispatch(sel) ==
    [ id \in MessageIds |->
        IF \E i \in sel : messages[i].id = id
        THEN Append(deliveries[id], NewDelivery)
        ELSE deliveries[id] ]

\* the forEach without its status write: the selected messages stay Scheduled
MarkProcessingNoStatus(sel) == messages

\* the message store after the forEach marked the selected messages
MarkProcessing(sel) ==
    [ i \in Indices(messages) |->
        IF i \in sel THEN [ messages[i] EXCEPT !.status = Processing ]
        ELSE messages[i] ]

\* the forEach without processingQueue.add
QueueAfterDispatchNoAdd(sel) == processingQueue

\* the in-flight set after the forEach
QueueAfterDispatch(sel) == processingQueue \cup { messages[i].id : i \in sel }

\* one firing of the interval timer
runScheduler ==
    LET sel == messagesToDeliver IN
    /\ messages' = MarkProcessing(sel)
    /\ processingQueue' = QueueAfterDispatch(sel)
    /\ deliveries' = Dispatch(sel)

\* function cancelMessage(message)
cancelMessage(id) == processingQueue \ {id}

\* a scheduleMessage that puts the id into the set runScheduler tests
scheduleMessageEnqueues(id) == processingQueue \cup {id}

\* function scheduleMessage(message): it only logs
scheduleMessage(id) == processingQueue

\* a completion handler that puts a failed message back to Scheduled (a retry)
OnResolvedRetry(id, finalStatus) ==
    /\ messages' = [ i \in Indices(messages) |->
                       IF messages[i].id = id
                       THEN [ messages[i] EXCEPT !.status =
                                IF finalStatus = Failed THEN Scheduled ELSE finalStatus ]
                       ELSE messages[i] ]
    /\ processingQueue' = processingQueue \ {id}

\* a completion handler that writes the status and leaves the marker in place
OnResolvedKeepsMarker(id, finalStatus) ==
    /\ messages' = [ i \in Indices(messages) |->
                       IF messages[i].id = id
                       THEN [ messages[i] EXCEPT !.status = finalStatus ]
                       ELSE messages[i] ]
    /\ processingQueue' = processingQueue

\* a completion handler that empties the whole in-flight set
OnResolvedClearsAll(id, finalStatus) ==
    /\ messages' = [ i \in Indices(messages) |->
                       IF messages[i].id = id
                       THEN [ messages[i] EXCEPT !.status = finalStatus ]
                       ELSE messages[i] ]
    /\ processingQueue' = {}

\* .then(finalStatus => { message.status = finalStatus; processingQueue.delete(message.id) })
OnResolved(id, finalStatus) ==
    /\ messages' = [ i \in Indices(messages) |->
                       IF messages[i].id = id
                       THEN [ messages[i] EXCEPT !.status = finalStatus ]
                       ELSE messages[i] ]
    /\ processingQueue' = processingQueue \ {id}

\* a rejection handler that clears the marker and forgets the status write
OnRejectedNoStatus(id) ==
    /\ messages' = messages
    /\ processingQueue' = processingQueue \ {id}

\* a rejection handler that writes the status and forgets to delete the marker
OnRejectedKeepsMarker(id) ==
    /\ messages' = [ i \in Indices(messages) |->
                       IF messages[i].id = id
                       THEN [ messages[i] EXCEPT !.status = FailedWorkerError ]
                       ELSE messages[i] ]
    /\ processingQueue' = processingQueue

\* .catch(error => { message.status = 'Failed (Worker Error)'; processingQueue.delete(message.id) })
OnRejected(id) ==
    /\ messages' = [ i \in Indices(messages) |->
                       IF messages[i].id = id
                       THEN [ messages[i] EXCEPT !.status = FailedWorkerError ]
                       ELSE messages[i] ]
    /\ processingQueue' = processingQueue \ {id}

\* ------------------------------------------------------------- whatsapp_worker.js
\* sendMessage with initializeSession outside its try block: the error rejects
\* the promise deliver returned
InitFailedRethrown(id, k, browser, page) ==
    /\ deliveries' = [ deliveries EXCEPT ![id][k] =
                         [ @ EXCEPT !.pc = "done", !.status = Failed, !.browser = browser,
                                    !.page = page, !.outcome = "rejected" ] ]
    /\ OnRejected(id)

\* sendMessage's catch and finally when initializeSession threw: session is
\* undefined, so no page is closed, and 'Failed' is returned
InitFailed(id, k, browser, page) ==
    /\ deliveries' = [ deliveries EXCEPT ![id][k] =
                         [ @ EXCEPT !.pc = "done", !.status = Failed, !.browser = browser,
                                    !.page = page, !.outcome = "resolved" ] ]
    /\ OnResolved(id, Failed)

\* fs.mkdir, chromium.launchPersistentContext and browser.newPage settle. The
\* code launches a context on the user's directory whether or not an earlier
\* call has one open on it; Chromium may refuse the second launch or go ahead,
\* so both outcomes are kept. ok = FALSE: mkdir or the launch threw (nothing
\* is open), or newPage threw (the context stays open).
InitLaunch(id, k, ok) ==
    LET d == deliveries[id][k] IN
    /\ d.pc = "launch"
    /\ IF ok
       THEN /\ deliveries' = [ deliveries EXCEPT ![id][k] =
                                 [ d EXCEPT !.pc = "login", !.browser = TRUE,
                                            !.page = "open" ] ]
            /\ UNCHANGED <<messages, processingQueue>>
       ELSE \E launched \in BOOLEAN : InitFailed(id, k, launched, "none")

\* page.goto and the waits for #pane-side settle (ok = FALSE: goto threw, or
\* the 60 s wait for the manual login timed out)
InitLogin(id, k, ok) ==
    LET d == deliveries[id][k] IN
    /\ d.pc = "login"
    /\ IF ok
       THEN /\ deliveries' = [ deliveries EXCEPT ![id][k] =
                                 [ d EXCEPT !.pc = "send", !.session = TRUE ] ]
            /\ UNCHANGED <<messages, processingQueue>>
       ELSE InitFailed(id, k, TRUE, "open")

\* steps 2 to 6 of sendMessage settle; then the finally block awaits page.close()
SendSteps(id, k, ok) ==
    LET d == deliveries[id][k] IN
    /\ d.pc = "send"
    /\ deliveries' = [ deliveries EXCEPT ![id][k] =
                         [ d EXCEPT !.pc = "close",
                                    !.status = IF ok THEN Sent ELSE Failed ] ]
    /\ UNCHANGED <<messages, processingQueue>>

\* session.page.close() settles: sendMessage returns status, or the error
\* thrown inside finally rejects its promise
ClosePage(id, k, ok) ==
    LET d == deliveries[id][k] IN
    /\ d.pc = "close"
    /\ IF ok
       THEN /\ deliveries' = [ deliveries EXCEPT ![id][k] =
                                 [ d EXCEPT !.pc = "done", !.page = "closed",
                                            !.outcome = "resolved" ] ]
            /\ OnResolved(id, d.status)
       ELSE /\ deliveries' = [ deliveries EXCEPT ![id][k] =
                                 [ d EXCEPT !.pc = "done", !.outcome = "rejected" ] ]
            /\ OnRejected(id)

\* ------------------------------------------------------------- server.js
\* new Date(scheduledDateTime)
ParseDate(x) == IF x \in Times THEN x ELSE InvalidDate

DateInputs == Times \cup {Garbage, Missing}

\* a text field of the request body is 1 when present, Missing otherwise
TextInputs == {1, Missing}

AllBodies == [ contactName : TextInputs, phoneNumber : TextInputs,
               scheduledDateTime : DateInputs, messageContent : TextInputs ]

\* the request bodies tried: the complete ones, and those lacking exactly one field
Bodies ==
    { b \in AllBodies :
        Cardinality({ f \in {"contactName", "phoneNumber", "scheduledDateTime",
                             "messageContent"} : b[f] = Missing }) <= 1
        /\ (b.scheduledDateTime \in {1, Missing}
              \/ (b.contactName = 1 /\ b.phoneNumber = 1 /\ b.messageContent = 1)) }

\* the validation without its test of messageContent
MalformedNoContentTest(body) ==
    \/ body.contactName = Missing
    \/ body.phoneNumber = Missing
    \/ body.scheduledDateTime = Missing

\* !contactName || !phoneNumber || !scheduledDateTime || !messageContent
Malformed(body) ==
    \/ body.contactName = Missing
    \/ body.phoneNumber = Missing
    \/ body.scheduledDateTime = Missing
    \/ body.messageContent = Missing

\* app.listen callback
Listen ==
    /\ ~listening
    /\ listening' = TRUE
    /\ startScheduler
    /\ UNCHANGED <<prismaVars, messages, messageIdCounter, processingQueue, deliveries, now>>

\* POST /api/messages/schedule: the HTTP status it answers with
ScheduleResponse(body) == IF Malformed(body) THEN 400 ELSE 201

\* POST /api/messages/schedule. A malformed request returns 400 before it
\* touches anything: it takes no step.
ScheduleRequest(userId, body) ==
    /\ listening
    /\ ScheduleResponse(body) = 201
    /\ Len(messages) < MaxMessages
    /\ messages' = Append(messages,
                     [ id |-> messageIdCounter, userId |-> userId,
                       scheduledDateTime |-> ParseDate(body.scheduledDateTime),
                       status |-> Scheduled ])
    /\ messageIdCounter' = messageIdCounter + 1
    /\ processingQueue' = scheduleMessage(messageIdCounter)
    /\ UNCHANGED <<prismaVars, deliveries, now, timerVars, listening>>

\* messages.filter(msg => msg.userId === req.user.id)
userMessages(userId) == SelectSeq(messages, LAMBDA msg : msg.userId = userId)

\* b.scheduledDateTime - a.scheduledDateTime < 0: a sorts before b. With an
\* Invalid Date the difference is NaN, which sort treats as "not before"
SortsBefore(a, b) ==
    /\ a.scheduledDateTime # InvalidDate
    /\ b.scheduledDateTime # InvalidDate
    /\ b.scheduledDateTime - a.scheduledDateTime < 0

\* m put into s before the first element it sorts before
InsertSorted(s, m) ==
    LET later == { j \in Indices(s) : SortsBefore(m, s[j]) }
        pos == IF later = {} THEN Len(s) + 1
               ELSE CHOOSE j \in later : \A k \in later : j <= k
    IN SubSeq(s, 1, pos - 1) \o <<m>> \o SubSeq(s, pos, Len(s))

\* Array.prototype.sort with that comparator: newest first, stable
RECURSIVE SortNewestFirst(_)
SortNewestFirst(s) ==
    IF s = << >> THEN << >>
    ELSE InsertSorted(SortNewestFirst(SubSeq(s, 1, Len(s) - 1)), s[Len(s)])

\* GET /api/messages: the list the handler answers with
ListResponse(userId) == SortNewestFirst(userMessages(userId))

\* the cancel handler without its status test
CancelResponseNoCheck(userId, messageId) ==
    IF findIndex(messages, messageId, userId) = 0 THEN 404 ELSE 200

\* the cancel handler also accepting a message that is being processed
CancelResponseInProgress(userId, messageId) ==
    LET messageIndex == findIndex(messages, messageId, userId) IN
    IF messageIndex = 0 THEN 404
    ELSE IF messages[messageIndex].status \notin {Scheduled, Processing} THEN 400
    ELSE 200

\* POST /api/messages/cancel/:id: the HTTP status it answers with
CancelResponse(userId, messageId) ==
    LET messageIndex == findIndex(messages, messageId, userId) IN
    IF messageIndex = 0 THEN 404
    ELSE IF messages[messageIndex].status # Scheduled THEN 400
    ELSE 200

\* POST /api/messages/cancel/:id. A request answered 404 or 400 returns before
\* it touches anything: it takes no step.
CancelRequest(userId, messageId) ==
    LET messageIndex == findIndex(messages, messageId, userId) IN
    /\ listening
    /\ CancelResponse(userId, messageId) = 200
    /\ messages' = [ messages EXCEPT ![messageIndex].status = Canceled ]
    /\ processingQueue' = cancelMessage(messageId)
    /\ UNCHANGED <<prismaVars, messageIdCounter, deliveries, now, timerVars, listening>>

\* ------------------------------------------------------------- database-backed server
\* the status values of the ScheduledMessage rows the handlers read and write
PScheduled == "SCHEDULED"
PCanceled == "CANCELED"

\* s without its n-th element
RemoveAt(s, n) == [ i \in 1..(Len(s) - 1) |-> IF i < n THEN s[i] ELSE s[i + 1] ]

\* POST /api/messages/schedule: prisma.scheduledMessage.create has stored the
\* row; the handler sets no status, the row gets the one of the schema, which
\* the cancel handler expects to be 'SCHEDULED'. A request lacking a field is
\* answered 400 before the create.
PrismaSchedule(userId, body) ==
    /\ body.contactName # Missing
    /\ body.phoneNumber # Missing
    /\ body.scheduledDateTime # Missing
    /\ body.messageContent # Missing
    /\ Len(scheduledMessage) < MaxMessages
    /\ scheduledMessage' = Append(scheduledMessage,
                              [ id |-> Len(scheduledMessage) + 1, userId |-> userId,
                                status |-> PScheduled ])
    /\ UNCHANGED <<memVars, cancelHandlers>>

\* POST /api/messages/cancel/:id is called: the handler issues findFirst and is
\* suspended at its await
PrismaCancel(userId, messageId) ==
    /\ Len(cancelHandlers) < MaxHandlers
    /\ cancelHandlers' = Append(cancelHandlers,
                            [ userId |-> userId, messageId |-> messageId,
                              pc |-> "findFirst" ])
    /\ UNCHANGED <<memVars, scheduledMessage>>

\* findFirst({ where: { id, userId } }) settles with the row as it is now: the
\* handler answers 404 or 400 and ends, or issues the update and is suspended
\* at its second await
PrismaFindFirst(n) ==
    LET h == cancelHandlers[n]
        row == findIndex(scheduledMessage, h.messageId, h.userId)
    IN
    /\ h.pc = "findFirst"
    /\ cancelHandlers' =
          IF row = 0 \/ scheduledMessage[row].status # PScheduled
          THEN RemoveAt(cancelHandlers, n)
          ELSE [ cancelHandlers EXCEPT ![n].pc = "update" ]
    /\ UNCHANGED <<memVars, scheduledMessage>>

\* update({ where: { id }, data: { status: 'CANCELED' } }) settles and the
\* handler answers 200
PrismaUpdate(n) ==
    LET h == cancelHandlers[n] IN
    /\ h.pc = "update"
    /\ scheduledMessage' =
          [ i \in Indices(scheduledMessage) |->
              IF scheduledMessage[i].id = h.messageId
              THEN [ scheduledMessage[i] EXCEPT !.status = PCanceled ]
              ELSE scheduledMessage[i] ]
    /\ cancelHandlers' = RemoveAt(cancelHandlers, n)
    /\ UNCHANGED memVars

\* ------------------------------------------------------------- environment
\* the interval timer fires
Tick ==
    /\ liveIntervals # {}
    /\ \A i \in messagesToDeliver : Len(deliveries[messages[i].id]) < MaxCalls
    /\ runScheduler
    /\ UNCHANGED <<prismaVars, messageIdCounter, now, timerVars, listening>>

\* the wall clock moves on
AdvanceTime ==
    /\ now < MaxTime
    /\ now' = now + 1
    /\ UNCHANGED <<prismaVars, messages, messageIdCounter, processingQueue, deliveries,
                   timerVars, listening>>

\* a Playwright call awaited by a delivery settles
WorkerStep(id, k) ==
    /\ k \in Indices(deliveries[id])
    /\ \E ok \in BOOLEAN :
          \/ InitLaunch(id, k, ok)
          \/ InitLogin(id, k, ok)
          \/ SendSteps(id, k, ok)
          \/ ClosePage(id, k, ok)
    /\ UNCHANGED <<prismaVars, messageIdCounter, now, timerVars, listening>>

\* another caller of the scheduler module calls cancelMessage(message)
CancelMessageDirect(id) ==
    /\ listening
    /\ id \in Ids
    /\ processingQueue' = cancelMessage(id)
    /\ UNCHANGED <<prismaVars, messages, messageIdCounter, deliveries, now, timerVars, listening>>

\* another caller of the scheduler module calls startScheduler(messages) with
\* the server's array
StartSchedulerCall ==
    /\ listening
    /\ nextHandle <= MaxStarts
    /\ startScheduler
    /\ UNCHANGED <<prismaVars, messages, messageIdCounter, processingQueue, deliveries, now, listening>>

\* another caller of the scheduler module calls stopScheduler()
StopSchedulerCall ==
    /\ listening
    /\ stopScheduler
    /\ UNCHANGED <<prismaVars, messages, messageIdCounter, processingQueue, deliveries, now, listening>>

\* the users a request may come from: those who schedule messages, and one who
\* holds a valid token and has scheduled nothing
Requesters == 1..(MaxUsers + 1)

\* identifiers a cancel request may name: every id handed out, and one never handed out
RequestIds == 1..(MaxMessages + 1)

Next ==
    \/ Listen
    \/ \E u \in Users, body \in Bodies : ScheduleRequest(u, body)
    \/ \E u \in Requesters, id \in RequestIds : CancelRequest(u, id)
    \/ Tick
    \/ AdvanceTime
    \/ \E id \in MessageIds, k \in 1..MaxCalls : WorkerStep(id, k)

Spec == Init /\ [][Next]_vars

NextModule ==
    \/ Next
    \/ \E id \in RequestIds : CancelMessageDirect(id)

SpecModule == Init /\ [][NextModule]_vars

NextLifecycle ==
    \/ Next
    \/ StartSchedulerCall
    \/ StopSchedulerCall

SpecLifecycle == Init /\ [][NextLifecycle]_vars

\* the Playwright call a delivery of a message awaits eventually settles
LiveSpec ==
    /\ Spec
    /\ \A id \in MessageIds : WF_vars(\E k \in 1..MaxCalls : WorkerStep(id, k))

NextPrisma ==
    \/ \E u \in Users, body \in Bodies : PrismaSchedule(u, body)
    \/ \E u \in Users, id \in RequestIds : PrismaCancel(u, id)
    \/ \E n \in 1..MaxHandlers : n <= Len(cancelHandlers) /\ PrismaFindFirst(n)
    \/ \E n \in 1..MaxHandlers : n <= Len(cancelHandlers) /\ PrismaUpdate(n)

SpecPrisma == Init /\ [][NextPrisma]_vars

\* the interval timer keeps firing: a tick that has something to dispatch is
\* not put off forever
LiveSpecTicks == Spec /\ WF_vars(Tick)

\* the timer keeps firing and the awaited calls of every message but the first
\* eventually settle; the delivery of the first message may hang forever
LiveSpecOthers ==
    /\ LiveSpecTicks
    /\ \A id \in MessageIds \ {messageIdCounterStart} :
          WF_vars(\E k \in 1..MaxCalls : WorkerStep(id, k))

\* ------------------------------------------------------------- properties
Calls(id) == Indices(deliveries[id])
InFlight(id) == { k \in Calls(id) : deliveries[id][k].pc # "done" }
UserOf(id) == messages[IndexOf(id)].userId
TerminalStatuses == {Sent, Failed, FailedWorkerError}
Edges ==
    { <<Scheduled, Processing>>, <<Processing, Sent>>, <<Processing, Failed>>,
      <<Processing, FailedWorkerError>>, <<Scheduled, Canceled>> }

\* C1: under any interleaving of ticks, delivery completions, schedule and cancel
\* requests (and direct cancelMessage calls), at most one deliver invocation is in
\* flight for any message id.
C1_AtMostOneInFlight == \A id \in MessageIds : Cardinality(InFlight(id)) <= 1

\* a delivery is in flight for a message whose marker a cancelMessage call removed
C1_Witness ==
    \E id \in Ids : Cardinality(InFlight(id)) = 1 /\ id \notin processingQueue
                     /\ IsDue(messages[IndexOf(id)])

\* C2: every change of a message's status follows one of the edges
\* Scheduled->Processing, Processing->Sent, Processing->Failed,
\* Processing->FailedWorkerError, Scheduled->Canceled; in particular Sent, Failed,
\* FailedWorkerError and Canceled are never left.
C2_StatusEdges ==
    [][ \A i \in Indices(messages) :
          /\ messages'[i].id = messages[i].id
          /\ messages'[i].status # messages[i].status
                => <<messages[i].status, messages'[i].status>> \in Edges ]_vars

\* one message was canceled and another was delivered
C2_Witness ==
    \E i, j \in Indices(messages) :
        messages[i].status = Canceled /\ messages[j].status = Sent

\* C3: over the lifetime of a message id the Delivery Worker is invoked at most
\* once, whatever its final status and whatever cancel or schedule calls occur.
C3_InvokedAtMostOnce == \A id \in MessageIds : Len(deliveries[id]) <= 1

\* a message whose only delivery ended Failed is still due and unmarked
C3_Witness ==
    \E id \in Ids :
        /\ StatusOf(id) = Failed
        /\ Len(deliveries[id]) = 1
        /\ deliveries[id][1].pc = "done"
        /\ IsDue(messages[IndexOf(id)])
        /\ id \notin processingQueue

\* C4: every message a tick has dispatched (status Processing) eventually reaches
\* Sent, Failed or FailedWorkerError, provided every awaited call of its delivery
\* eventually settles: no message stays Processing forever, and a message that
\* leaves Processing is Sent, Failed or FailedWorkerError from then on.
C4_DispatchedEventuallyTerminal ==
    /\ \A id \in MessageIds : []<>(id \in Ids => StatusOf(id) # Processing)
    /\ [][ \A i \in Indices(messages) :
              /\ (messages[i].status = Processing /\ messages'[i].status # Processing)
                    => messages'[i].status \in TerminalStatuses
              /\ messages[i].status \in TerminalStatuses
                    => messages'[i].status \in TerminalStatuses ]_vars

\* a dispatched message is waiting for its page to close
C4_Witness ==
    \E id \in Ids :
        /\ StatusOf(id) = Processing
        /\ \E k \in Calls(id) : deliveries[id][k].pc = "close"

\* C5: a cancel request for a message of the requesting user sets the status to
\* Canceled if and only if the status is Scheduled at the time of the call;
\* on any other status it is rejected (400) and the store is left unchanged.
C5_CancelIffScheduled ==
    /\ [](\A i \in Indices(messages) :
            LET u == messages[i].userId
                id == messages[i].id
            IN
            /\ CancelResponse(u, id) = IF messages[i].status = Scheduled THEN 200 ELSE 400
            /\ (ENABLED CancelRequest(u, id)) <=> messages[i].status = Scheduled)
    /\ [][ \A i \in Indices(messages) :
              LET u == messages[i].userId
                  id == messages[i].id
              IN
              /\ CancelRequest(u, id) =>
                    /\ messages[i].status = Scheduled
                    /\ messages'[i].status = Canceled
              /\ (messages'[i].status = Canceled /\ messages[i].status # Canceled)
                    => (messages[i].status = Scheduled /\ CancelRequest(u, id)) ]_vars

\* a message was canceled while another one is being processed
C5_Witness ==
    \E i, j \in Indices(messages) :
        messages[i].status = Canceled /\ messages[j].status = Processing

\* C6 (as claimed): in every reachable state a message whose status is Processing
\* has its id in the in-flight set, whatever tick, completion, scheduleMessage and
\* cancelMessage calls were made.
C6_ProcessingIsMarked ==
    \A id \in Ids : StatusOf(id) = Processing => id \in processingQueue

\* C6 (amended): a Processing message loses its in-flight marker only by a
\* cancelMessage call made for it while it is Processing; ticks, completion
\* handlers, schedule requests and cancel requests made through the API never
\* produce a Processing message without its marker.
C6_OnlyCancelMessageUnmarks ==
    [][ \A id \in Ids :
          (StatusOf(id)' = Processing /\ id \notin processingQueue') =>
              /\ StatusOf(id) = Processing
              /\ \/ id \notin processingQueue
                 \/ /\ processingQueue' = cancelMessage(id)
                    /\ UNCHANGED <<messages, deliveries>> ]_vars

\* a completion handler has written a terminal status and removed the marker,
\* and another message is Processing with its marker removed by cancelMessage
C6_Witness ==
    \E id, other \in Ids :
        /\ StatusOf(id) \in TerminalStatuses
        /\ id \notin processingQueue
        /\ StatusOf(other) = Processing
        /\ other \notin processingQueue

\* C7: a tick that fires while a message is still Processing neither selects nor
\* dispatches that message again.
C7_NoRedispatchWhileProcessing ==
    [][ Tick =>
          \A i \in Indices(messages) :
              messages[i].status = Processing =>
                  /\ i \notin messagesToDeliver
                  /\ deliveries'[messages[i].id] = deliveries[messages[i].id]
                  /\ messages'[i].status = Processing ]_vars

\* a due message is Processing and its delivery has got past the launch
C7_Witness ==
    \E id \in Ids :
        /\ StatusOf(id) = Processing
        /\ IsDue(messages[IndexOf(id)])
        /\ \E k \in Calls(id) : deliveries[id][k].pc \in {"login", "send"}

\* C8 (as claimed): two deliveries dispatched concurrently for the same user
\* create one session only.
SessionsCreated(u) ==
    { <<id, k>> \in MessageIds \X (1..MaxCalls) :
        /\ id \in Ids
        /\ UserOf(id) = u
        /\ k \in Calls(id)
        /\ deliveries[id][k].browser }

C8_OneSessionPerUser == \A u \in Users : Cardinality(SessionsCreated(u)) <= 1

\* C9 (as claimed): at most one delivery attempt uses a given user's session at
\* any time.
SessionUsers(u) ==
    { <<id, k>> \in MessageIds \X (1..MaxCalls) :
        /\ id \in Ids
        /\ UserOf(id) = u
        /\ k \in Calls(id)
        /\ deliveries[id][k].session
        /\ deliveries[id][k].pc \in {"send", "close"} }

C9_OneAttemptPerSession == \A u \in Users : Cardinality(SessionUsers(u)) <= 1

\* the deliveries that ended because initializeSession threw
InitFailures(id) ==
    { k \in Calls(id) : deliveries[id][k].pc = "done" /\ ~deliveries[id][k].session }

\* the deliveries whose promise was rejected
Rejections(id) ==
    { k \in Calls(id) : deliveries[id][k].pc = "done"
                        /\ deliveries[id][k].outcome = "rejected" }

PagesLeftOpen(id) ==
    { k \in Calls(id) : deliveries[id][k].pc = "done" /\ deliveries[id][k].page = "open" }

\* C11 (as claimed): when the promise of a dispatched message's delivery is
\* rejected, the message ends in FailedWorkerError, its id is no longer in the
\* in-flight set, and the page the attempt opened on the user's session has been
\* closed.
C11_RejectionReleasesSession ==
    \A id \in Ids :
        \A k \in Rejections(id) :
            /\ StatusOf(id) = FailedWorkerError
            /\ id \notin processingQueue
            /\ k \notin PagesLeftOpen(id)

\* the ended deliveries of a message that launched a browser context and threw
\* before initializeSession returned it: nothing refers to the context any more
ContextsOrphaned(id) ==
    { k \in Calls(id) : /\ deliveries[id][k].pc = "done"
                        /\ deliveries[id][k].browser
                        /\ ~deliveries[id][k].session }

\* C12 (as claimed): on every outcome (Sent, Failed, worker error, and a failure
\* of initializeSession after the launch) an ended delivery holds none of the
\* resources it opened: its page is closed and no context is left without owner.
C12_ResourcesReleased ==
    \A id \in MessageIds : PagesLeftOpen(id) = {} /\ ContextsOrphaned(id) = {}

\* the ended deliveries of a user for which initializeSession returned a session
SessionsEstablished(u) ==
    { c \in SessionsCreated(u) :
        deliveries[c[1]][c[2]].session /\ deliveries[c[1]][c[2]].pc = "done" }

\* C13 (as claimed): once a delivery of a user has completed with a session, a
\* later delivery for the same user launches no new browser context, and no
\* outcome of a delivery closes a context that was launched.
C13_SessionReused ==
    [][ \A id \in Ids :
          \A k \in Calls(id) :
              /\ (~deliveries[id][k].browser /\ deliveries'[id][k].browser)
                    => SessionsEstablished(UserOf(id)) = {}
              /\ deliveries[id][k].browser => deliveries'[id][k].browser ]_vars

\* no armed timer has been cleared: stopScheduler has not taken effect so far
NoStopYet == liveIntervals = 1..(nextHandle - 1)

\* C14 (as claimed): after startScheduler was called once or more with no stop
\* in between, exactly one interval timer is armed, so one tick fires per period.
C14_StartIsIdempotent ==
    (schedulerInterval # 0 /\ NoStopYet) => Cardinality(liveIntervals) = 1

\* the last call of startScheduler or stopScheduler was stopScheduler: the handle
\* startScheduler stored has been cleared
Stopped == schedulerInterval # 0 /\ schedulerInterval \notin liveIntervals

\* C15 (as claimed): once stopScheduler has returned, whatever startScheduler and
\* stopScheduler calls came before, no timer is left to fire a tick and no
\* message is dispatched; a delivery in flight still ends, writes its terminal
\* status and clears its marker.
C15_StopIsClean ==
    [][ Stopped' =>
          /\ liveIntervals' = {}
          /\ Stopped =>
                \A id \in MessageIds :
                    /\ Len(deliveries'[id]) = Len(deliveries[id])
                    /\ \A k \in Calls(id) :
                          (deliveries[id][k].pc # "done" /\ deliveries'[id][k].pc = "done")
                              => /\ StatusOf(id)' \in TerminalStatuses
                                 /\ id \notin processingQueue' ]_vars

\* the messages whose scheduled instant is later than the instant a tick reads
FutureMessages == { i \in Indices(messages) : messages[i].scheduledDateTime > now }

\* C16: a tick leaves every message scheduled later than its 'now' untouched:
\* the status stays Scheduled, the id is not added to the in-flight set and no
\* deliver call is made for it.
C16_FutureMessageUntouched ==
    [][ Tick =>
          \A i \in FutureMessages :
              LET id == messages[i].id IN
              /\ messages'[i] = messages[i]
              /\ messages[i].status = Scheduled => messages'[i].status = Scheduled
              /\ id \in processingQueue' <=> id \in processingQueue
              /\ deliveries'[id] = deliveries[id] ]_vars

\* the timer is armed while a Scheduled message is not due yet and has never
\* been marked or dispatched
C16_Witness ==
    /\ liveIntervals # {}
    /\ \E i \in FutureMessages :
          /\ messages[i].status = Scheduled
          /\ messages[i].id \notin processingQueue
          /\ deliveries[messages[i].id] = << >>

\* the delivery of a message whose page closes in this step after its steps succeeded
ReturnsSent(id, k) ==
    /\ deliveries[id][k].pc = "close"
    /\ deliveries[id][k].status = Sent
    /\ deliveries'[id][k].pc = "done"
    /\ deliveries'[id][k].outcome = "resolved"

\* C17: one tick takes a Scheduled message that is due to Processing and adds
\* its id to the in-flight set; when the worker then returns Sent the status
\* becomes Sent and the id leaves the in-flight set; between the two the status
\* is Processing and nothing else.
C17_ScheduledProcessingSent ==
    [][ \A i \in Indices(messages) :
          LET id == messages[i].id IN
          /\ (Tick /\ messages[i].status = Scheduled /\ IsDue(messages[i])) =>
                /\ messages'[i].status = Processing
                /\ id \in processingQueue'
                /\ deliveries'[id] = <<NewDelivery>>
          /\ \A k \in Calls(id) :
                /\ ReturnsSent(id, k) =>
                      /\ messages[i].status = Processing
                      /\ id \in processingQueue
                      /\ messages'[i].status = Sent
                      /\ id \notin processingQueue'
                /\ (deliveries[id][k].pc # "done" /\ deliveries'[id][k].pc # "done")
                      => (messages[i].status = Processing /\ messages'[i].status = Processing) ]_vars

\* a message that was due went through Processing and is now Sent and unmarked
C17_Witness ==
    \E id \in Ids :
        /\ StatusOf(id) = Sent
        /\ id \notin processingQueue
        /\ IsDue(messages[IndexOf(id)])
        /\ Len(deliveries[id]) = 1
        /\ deliveries[id][1].status = Sent
        /\ deliveries[id][1].page = "closed"

\* C18: scheduleMessage does no work on scheduler state. The step of the
\* schedule handler that calls it leaves the in-flight set, every stored
\* message, the deliveries and the timer as they were, and stores the new
\* message as Scheduled and unmarked; whether a tick takes a Scheduled message
\* depends on its due time alone, as if scheduleMessage had never been called.
C18_ScheduleMessageNoWork ==
    /\ [](\A i \in Indices(messages) :
            messages[i].status = Scheduled =>
                /\ messages[i].id \notin processingQueue
                /\ deliveries[messages[i].id] = << >>
                /\ i \in messagesToDeliver <=> IsDue(messages[i]))
    /\ [][ Len(messages') > Len(messages) =>
              /\ processingQueue' = processingQueue
              /\ \A i \in Indices(messages) : messages'[i] = messages[i]
              /\ deliveries' = deliveries
              /\ UNCHANGED timerVars
              /\ messages'[Len(messages')].status = Scheduled
              /\ messages'[Len(messages')].id \notin processingQueue' ]_vars

\* a message is being processed and a later one, stored by the schedule handler,
\* is due and waits for the next tick
C18_Witness ==
    \E i, j \in Indices(messages) :
        /\ i < j
        /\ messages[i].status = Processing
        /\ messages[j].status = Scheduled
        /\ j \in messagesToDeliver

\* a message that is Processing and whose marker a cancelMessage call removed
Unmarked(id) == StatusOf(id) = Processing /\ id \notin processingQueue

\* the status the completion handlers write for an ended delivery
WrittenStatus(d) == IF d.outcome = "rejected" THEN FailedWorkerError ELSE d.status

\* C19: cancelMessage called for a message that is Processing removes its id
\* from the in-flight set and nothing else: the status stays Processing, the
\* delivery under way goes on and its completion writes the terminal status, and
\* no tick makes a second deliver call for the message.
C19_CancelDoesNotAbort ==
    [][ \A i \in Indices(messages) :
          LET id == messages[i].id
              st == messages[i].status
              st2 == messages'[i].status
          IN
          /\ (st = Processing /\ id \in processingQueue /\ id \notin processingQueue'
                /\ deliveries'[id][1].pc # "done") =>
                /\ processingQueue' = cancelMessage(id)
                /\ messages' = messages
                /\ deliveries' = deliveries
          /\ (st = Processing /\ id \notin processingQueue) =>
                /\ Len(deliveries[id]) = 1
                /\ deliveries[id][1].pc # "done"
                /\ Len(deliveries'[id]) = 1
                /\ IF deliveries'[id][1].pc = "done"
                   THEN st2 = WrittenStatus(deliveries'[id][1])
                   ELSE st2 = Processing
          /\ st \in TerminalStatuses => deliveries'[id] = deliveries[id] ]_vars

\* cancelMessage removed the marker of a due message whose delivery is waiting
\* for its page to close, and the timer is armed
C19_Witness ==
    \E id \in Ids :
        /\ Unmarked(id)
        /\ IsDue(messages[IndexOf(id)])
        /\ deliveries[id][1].pc = "close"
        /\ liveIntervals # {}

\* the request bodies in which a field is missing
LackingAField ==
    { b \in Bodies : \E f \in {"contactName", "phoneNumber", "scheduledDateTime",
                               "messageContent"} : b[f] = Missing }

\* C20: a schedule request lacking contact name, phone number, scheduled time
\* or content is answered with an error and changes nothing: the handler takes
\* no step for it, so no message is stored, no id is consumed and scheduleMessage
\* is not called. Every id handed out belongs to a stored message, and a message
\* enters the store, as Scheduled, only by a step that also consumes its id.
C20_MalformedRejected ==
    /\ [](/\ \A u \in Users, b \in LackingAField :
                /\ ScheduleResponse(b) = 400
                /\ ~ENABLED ScheduleRequest(u, b)
          /\ messageIdCounter = Len(messages) + 1)
    /\ [][ (messages' # messages /\ Len(messages') # Len(messages)) =>
              /\ Len(messages') = Len(messages) + 1
              /\ messageIdCounter' = messageIdCounter + 1
              /\ messages'[Len(messages')].id = messageIdCounter
              /\ messages'[Len(messages')].status = Scheduled ]_vars

\* the server listens, has stored a message and would store another one if the
\* request were well-formed
C20_Witness ==
    /\ listening
    /\ Len(messages) = 1
    /\ \E u \in Users, b \in Bodies \ LackingAField : ENABLED ScheduleRequest(u, b)

\* C21: a tick selects exactly the messages that are Scheduled, due and not in
\* the in-flight set; when it returns, each of them is Processing, marked and
\* handed to the worker, whose call is still pending (the tick waited for no
\* delivery and no completion handler of the tick has run); every other message
\* is as it was.
C21_TickSelectsAndMarksAll ==
    [][ Tick =>
          \A i \in Indices(messages) :
              LET id == messages[i].id IN
              IF /\ messages[i].status = Scheduled
                 /\ IsDue(messages[i])
                 /\ id \notin processingQueue
              THEN /\ messages'[i].status = Processing
                   /\ id \in processingQueue'
                   /\ deliveries'[id] = Append(deliveries[id], NewDelivery)
              ELSE /\ messages'[i] = messages[i]
                   /\ id \in processingQueue' <=> id \in processingQueue
                   /\ deliveries'[id] = deliveries[id] ]_vars

\* one tick took two due messages: both are Processing and marked, and both
\* deliver calls are still waiting for the browser launch
C21_Witness ==
    \E i, j \in Indices(messages) :
        /\ i # j
        /\ \A m \in {i, j} :
              /\ messages[m].status = Processing
              /\ messages[m].id \in processingQueue
              /\ deliveries[messages[m].id] = <<NewDelivery>>

\* C22: deliveries of distinct messages are independent. A step of one
\* message's delivery, its completion or worker error included, changes neither
\* the status, nor the in-flight membership, nor the deliveries of any other
\* message, and it never disarms the timer; and while the delivery of one
\* message hangs or fails, every other message that is due is dispatched and
\* reaches a terminal status (or is canceled), in whatever order the awaited
\* calls settle.
C22_DeliveriesIndependent ==
    /\ [][ \A i \in Indices(messages) :
              LET id == messages[i].id IN
              deliveries'[id] # deliveries[id] /\ Len(deliveries'[id]) = Len(deliveries[id]) =>
                 /\ liveIntervals' = liveIntervals
                 /\ \A j \in Indices(messages) \ {i} :
                       /\ messages'[j] = messages[j]
                       /\ messages[j].id \in processingQueue' <=> messages[j].id \in processingQueue
                       /\ deliveries'[messages[j].id] = deliveries[messages[j].id] ]_vars
    /\ \A i \in MessageIds \ {messageIdCounterStart} :
          []<>(i \in Indices(messages) /\ IsDue(messages[i])
                  => messages[i].status \notin {Scheduled, Processing})

\* the first message ended in a worker error and the second one, dispatched in
\* the same or a later tick, was sent after it
C22_Witness ==
    /\ Len(messages) >= 2
    /\ messages[1].status = FailedWorkerError
    /\ messages[2].status = Sent
    /\ processingQueue = {}

\* C23: while the timer fires, a message that is Scheduled and due does not stay
\* Scheduled forever: a tick takes it to Processing unless a cancel request
\* takes it to Canceled first.
C23_DueEventuallyDispatched ==
    /\ \A i \in MessageIds :
          []<>~(i \in Indices(messages) /\ messages[i].status = Scheduled
                  /\ IsDue(messages[i]))
    /\ [][ \A i \in Indices(messages) :
              (messages[i].status = Scheduled /\ messages'[i].status # Scheduled) =>
                  \/ messages'[i].status = Canceled
                  \/ messages'[i].status = Processing /\ IsDue(messages[i]) /\ Tick ]_vars

\* a message that was Scheduled and due was taken by a tick while another, also
\* due, has been canceled
C23_Witness ==
    \E i, j \in Indices(messages) :
        /\ messages[i].status = Processing /\ IsDue(messages[i])
        /\ messages[j].status = Canceled /\ IsDue(messages[j])

\* C24: a message canceled while Scheduled is never delivered: no deliver call
\* was or is ever made for it, no tick selects it, it is not in the in-flight
\* set, and its status stays Canceled, also after its scheduled instant passed.
C24_CanceledNeverDelivered ==
    /\ [](\A i \in Indices(messages) :
            messages[i].status = Canceled =>
                /\ deliveries[messages[i].id] = << >>
                /\ i \notin messagesToDeliver
                /\ messages[i].id \notin processingQueue)
    /\ [][ \A i \in Indices(messages) :
              messages[i].status = Canceled =>
                  /\ messages'[i].status = Canceled
                  /\ deliveries'[messages[i].id] = << >> ]_vars

\* a canceled message is past its scheduled instant while the timer is armed and
\* another message, due at the same instant, was dispatched and sent
C24_Witness ==
    \E i, j \in Indices(messages) :
        /\ messages[i].status = Canceled
        /\ IsDue(messages[i])
        /\ liveIntervals # {}
        /\ messages[j].status = Sent

\* C25 (as claimed): sendMessage reports 'Sent successfully' only when session
\* initialization and every send step completed, reports 'Failed' whenever one
\* of them failed, and reports no other value.
C25_ReportsSentOrFailed ==
    \A id \in MessageIds :
        \A k \in Calls(id) :
            LET d == deliveries[id][k] IN
            d.pc = "done" =>
                /\ d.outcome = "resolved" => d.status \in {Sent, Failed}
                /\ (d.outcome = "resolved" /\ d.status = Sent) => d.session
                /\ (~d.session \/ d.status = Failed)
                      => (d.outcome = "resolved" /\ d.status = Failed)

\* C26: when cancelMessage is reached through the cancel handler only, the
\* in-flight set is in every reachable state exactly the set of ids of the
\* messages whose status is Processing: it holds no id of a Scheduled, Canceled
\* or ended message, and no id stays in it.
C26_QueueIsProcessingSet ==
    processingQueue = { messages[i].id : i \in { j \in Indices(messages) :
                                                   messages[j].status = Processing } }

\* a delivery ended in a worker error and its id has left the set, which holds
\* the id of the other message, still being processed
C26_Witness ==
    \E i, j \in Indices(messages) :
        /\ messages[i].status = FailedWorkerError
        /\ messages[j].status = Processing
        /\ processingQueue = {messages[j].id}

\* the messages a tick would select by status and due time alone
ScheduledAndDue ==
    { i \in Indices(messages) : messages[i].status = Scheduled /\ IsDue(messages[i]) }

\* C27: the guard against a second dispatch does not rest on the in-flight set:
\* in every reachable state, also after cancelMessage was called for a message
\* that is Processing, the filter with its test of processingQueue selects the
\* same messages as status Scheduled and scheduledDateTime <= now alone.
C27_GuardIsStatus == messagesToDeliver = ScheduledAndDue

\* a message is waiting for the next tick while cancelMessage has removed the
\* marker of another one that is being processed
C27_Witness ==
    /\ messagesToDeliver # {}
    /\ \E j \in Indices(messages) :
          /\ messages[j].status = Processing
          /\ messages[j].id \notin processingQueue
          /\ IsDue(messages[j])

\* C28 (as claimed): in the database-backed server the cancel handler writes
\* CANCELED only over a status that is SCHEDULED at the moment of the write,
\* whatever other update of the same row settles between its findFirst and its
\* update.
C28_CancelWritesOverScheduled ==
    [][ \A n \in Indices(cancelHandlers) :
          PrismaUpdate(n) =>
              \A i \in Indices(scheduledMessage) :
                  scheduledMessage[i].id = cancelHandlers[n].messageId
                      => scheduledMessage[i].status = PScheduled ]_vars

\* the elements of a sequence
Range(s) == { s[k] : k \in Indices(s) }

\* C29: a user observes and cancels only their own messages. A cancel request
\* naming an id that is unknown or owned by another user is answered 404 and
\* takes no step: the message, the in-flight set and the scheduler are left
\* alone; a cancel request that is carried out comes from the owner; and the
\* list operation returns exactly the requester's messages.
C29_OwnMessagesOnly ==
    /\ [](\A u \in Requesters :
            /\ \A id \in RequestIds :
                  (id \notin Ids \/ UserOf(id) # u) =>
                      /\ CancelResponse(u, id) = 404
                      /\ ~ENABLED CancelRequest(u, id)
            /\ Range(ListResponse(u)) = { m \in Range(messages) : m.userId = u }
            /\ Len(ListResponse(u)) = Cardinality({ i \in Indices(messages) :
                                                      messages[i].userId = u }))
    /\ [][ \A i \in Indices(messages) :
              (messages'[i].status = Canceled /\ messages[i].status # Canceled) =>
                  /\ CancelRequest(messages[i].userId, messages[i].id)
                  /\ \A j \in Indices(messages) \ {i} : messages'[j] = messages[j]
                  /\ processingQueue' = processingQueue ]_vars

\* a user who owns no message is refused the cancellation of a message its
\* owner could cancel, and sees an empty list while the owner sees the message
C29_Witness ==
    \E i \in Indices(messages), u \in Requesters :
        /\ messages[i].userId # u
        /\ messages[i].status = Scheduled
        /\ ENABLED CancelRequest(messages[i].userId, messages[i].id)
        /\ CancelResponse(u, messages[i].id) = 404
        /\ ListResponse(u) = << >>
        /\ ListResponse(messages[i].userId) # << >>

====
